---- MODULE Spec2Model ----
(***************************************************************************)
(* The ring buffer of 2020-01-22-pgnotifier (package ringbuffer): one      *)
(* writer goroutine calling Write and Reset, and reader goroutines calling *)
(* Read, synchronised by a sync.RWMutex and a sync.Cond built on that      *)
(* mutex's read locker.  Each goroutine is a small state machine; a step   *)
(* is one access to the shared offsets, or one lock / condition operation. *)
(***************************************************************************)
EXTENDS Integers, Sequences, FiniteSets, TLC

\* ------------------------------------------------------------------ bounds
\* Capacity handed to NewRingBuffer (its `size` argument).
Size == 2
\* Largest virtual offset the model lets the window end reach, and the
\* largest argument of Reset and Read.
MaxOff == 3

Readers == {"r1", "r2"}
\* The ids of the items written: Write and Read never look inside an item, so
\* two ids are what it takes to tell a slot's old item from its new one.
Items == {1, 2}
\* A slot of `buffer` that was never written holds a nil *Item.
Nil == 0
Offsets == 0..MaxOff

\* ------------------------------------------------------------------- state
VARIABLES
    buffer,   \* rb.buffer: slot index -> item (or Nil)
    start,    \* rb.start
    end,      \* rb.end
    wpc,      \* the writer goroutine's position
    warg,     \* the argument of the writer's call in progress
    pc,       \* each reader goroutine's position in Read / endOffset
    rstart,   \* Read's parameter `start`
    ctx,      \* whether the reader's context is cancelled (ctx.Err() != nil)
    res,      \* what Read returned: (next offset, items, error)
    crashed,  \* a goroutine panicked: the process is gone
    stored,   \* history: the items written at the offsets start .. end-1, in order
    h,        \* history, per reader: what the window was when it looked
    agentId,  \* the revised Read's parameter agentId (0: no filter)
    lastId,   \* WriteItems: lastId
    spc,      \* WriteItems: the sequencer goroutine's position
    cur,      \* WriteItems: item.Id of the item in hand
    fed,      \* history: the ids of the items waitItem delivered, in order
    ops,      \* history: what WriteItems did, in order
    pings,    \* history: how many times waitItem timed out
    gpc,      \* GetUpdates: the consumer goroutine's position
    gstart,   \* GetUpdates: start, the bookmark
    gfirst,   \* history: the bookmark GetUpdates was called with
    gin,      \* history: that bookmark was inside the window at the call
    got       \* history: the items of GetUpdates's successive Reads, concatenated

\* The state that only the revised Read or the sequencer uses.
\* The state of a GetUpdates loop.
consumer == <<gpc, gstart, gfirst, gin, got>>

extra == <<agentId, lastId, spc, cur, fed, ops, pings, consumer>>

vars == <<buffer, start, end, wpc, warg, pc, rstart, ctx, res, crashed, stored, h, extra>>

NoRes == [next |-> 0, items |-> <<>>, err |-> "none"]

\* kind: where Read's start lay against the window [A, B) when Read took the
\*       lock; B, exp: for start inside it, B and the items then stored at
\*       the offsets start .. B-1;
\* wk, C: where start lay against the window [C, D) when Wait retook the
\*       lock ("none": Read has not come back from Wait), and C when start
\*       was below it;
\* nw: Writes completed since Read took the lock (2 stands for two or more);
\* rs: a Reset ran, or was half done, at some moment since then;
\* empty: the window was empty (A = B) when Read took the lock.
NoHist == [kind |-> "none", B |-> 0, exp |-> <<>>, empty |-> FALSE,
           wk |-> "none", C |-> 0, nw |-> 0, rs |-> FALSE]

\* ----------------------------------------------------------- pure helpers
\* Go's % truncates toward zero: the result has the sign of the dividend.
GoMod(a, b) == IF a >= 0 THEN a % b ELSE -((-a) % b)

\* bufOffset := offset % rb.size
BufOffset(off) == GoMod(off, Size)

WriteNoAdvance(s, e) == s
\* Write: if rb.end-rb.start == rb.size { rb.start++ }
WriteStart(s, e) == IF e - s = Size THEN s + 1 ELSE s

WriteEndStays(e) == e
\* Write: rb.end++
WriteEnd(e) == e + 1

IsBeforeOrAt(s, a) == s <= a
\* endOffset, line 73: case start < rb.start
IsBefore(s, a) == s < a

\* endOffset, line 77: case start < rb.end
IsInside(s, e) == s < e

IsAtEndNever(s, e) == FALSE
\* endOffset, line 81: case start == rb.end
IsAtEnd(s, e) == s = e

\* endOffset, line 86: case start >= rb.end
IsAfter(s, e) == s >= e

RECURSIVE CopyItems(_, _, _)
\* Read's loop: for ; start < end; start++ { items = append(items, rb.buffer[start % rb.size]) }
CopyItems(buf, s, e) ==
    IF s < e THEN <<buf[BufOffset(s)]>> \o CopyItems(buf, s + 1, e) ELSE <<>>

\* A condition variable whose Wait kept cond.L while the goroutine sleeps.
HoldsRLockWaiting(r) ==
    pc[r] \in {"c1", "c2", "c2ret", "c3", "enlist", "c4", "wret", "done",
               "p1", "p2", "p3", "p4", "mk", "loop", "waiting", "woken"}

\* The readers that hold the read lock (between RLock and RUnlock).  At "done"
\* Read's return values are set and its deferred Unlock has not run yet.
HoldsRLock(r) ==
    pc[r] \in {"c1", "c2", "c2ret", "c3", "enlist", "c4", "wret", "done",
               "p1", "p2", "p3", "p4", "mk", "loop"}

\* RWMutex.RLock blocks while a writer has called Lock and not yet Unlock.
WriterPending == wpc = "w_wait"

\* In a call of Read after the read lock was first acquired.
InCall(r) == pc[r] \notin {"idle", "rlock"}

\* ------------------------------------------------------- history helpers
Where(s, a, b) ==
    IF s < a THEN "before" ELSE IF s < b THEN "inside" ELSE IF s = b THEN "atend" ELSE "after"

\* What a reader records when Read acquires the read lock.
AtLock(s, a, b, seq, resetting) ==
    LET k == Where(s, a, b)
        in == k = "inside" /\ ~resetting
    IN [NoHist EXCEPT !.kind = k,
                      !.B = IF in THEN b ELSE 0,
                      !.exp = IF in THEN SubSeq(seq, s - a + 1, b - a) ELSE <<>>,
                      !.empty = (a = b /\ ~resetting),
                      !.rs = resetting]

\* What a reader records when Wait reacquires the read lock.
AtWake(hr, s, a, b) ==
    [hr EXCEPT !.wk = Where(s, a, b), !.C = IF s < a THEN a ELSE 0]

Bump(n) == IF n < 2 THEN n + 1 ELSE 2

\* ------------------------------------------------------------------- Init
\* NewRingBuffer(size, start): empty buffer, start == end.
Init ==
    /\ buffer = [i \in 0..(Size - 1) |-> Nil]
    /\ start \in 0..1
    /\ end = start
    /\ wpc = "idle"
    /\ warg = 0
    /\ pc = [r \in Readers |-> "idle"]
    /\ rstart = [r \in Readers |-> 0]
    /\ ctx = [r \in Readers |-> FALSE]
    /\ res = [r \in Readers |-> NoRes]
    /\ crashed = FALSE
    /\ stored = <<>>
    /\ h = [r \in Readers |-> NoHist]
    /\ agentId = [r \in Readers |-> 0]
    /\ lastId = -1
    /\ spc = "wait"
    /\ cur = 0
    /\ fed = <<>>
    /\ ops = <<>>
    /\ pings = 0
    /\ gpc = "off"
    /\ gstart = 0
    /\ gfirst = 0
    /\ gin = FALSE
    /\ got = <<>>

\* ----------------------------------------------------------------- writer
BroadcastOne(p) ==
    IF \E r \in Readers : p[r] = "waiting"
    THEN LET w == CHOOSE r \in Readers : p[r] = "waiting"
         IN [p EXCEPT ![w] = "woken"]
    ELSE p
\* rb.cond.Broadcast(): every goroutine on the condition's wait list is made
\* runnable; each must still reacquire cond.L before Wait returns.
Broadcast(p) == [r \in Readers |-> IF p[r] = "waiting" THEN "woken" ELSE p[r]]

\* Write, line 46: rb.rw.Lock().  From here on new RLock calls block.
WriteEnter(item) ==
    /\ ~crashed
    /\ wpc = "idle"
    /\ wpc' = "w_wait"
    /\ warg' = item
    /\ UNCHANGED <<buffer, start, end, pc, rstart, ctx, res, crashed, stored, h>>

\* A call of Write by a writer that is free to call it at any moment.
WriteCall(item) ==
    /\ end < MaxOff
    /\ WriteEnter(item)
    /\ UNCHANGED extra

\* Write, lines 46-53: Lock() returns once no reader holds the read lock; the
\* slot and the offsets are changed under the exclusive lock; Unlock() hands
\* the read lock to every reader that blocked in RLock meanwhile.
WriteMutate ==
    /\ ~crashed
    /\ wpc = "w_wait"
    /\ \A r \in Readers : ~HoldsRLock(r)
    /\ buffer' = [buffer EXCEPT ![BufOffset(end)] = warg]
    /\ start' = WriteStart(start, end)
    /\ end' = WriteEnd(end)
    /\ stored' = (IF end - start = Size THEN Tail(stored) ELSE stored) \o <<warg>>
    /\ pc' = [r \in Readers |->
                CASE pc[r] = "rlock" -> "c1"
                  [] pc[r] = "relock" -> "wret"
                  [] OTHER -> pc[r]]
    /\ h' = [r \in Readers |->
                CASE pc[r] = "rlock" -> AtLock(rstart[r], start', end', stored', FALSE)
                  [] pc[r] = "relock" ->
                        AtWake([h[r] EXCEPT !.nw = Bump(h[r].nw)], rstart[r], start', end')
                  [] pc[r] \in {"waiting", "woken"} ->
                        [h[r] EXCEPT !.nw = Bump(h[r].nw)]
                  [] OTHER -> h[r]]
    /\ wpc' = "w_bcast"
    /\ warg' = 0
    /\ UNCHANGED <<rstart, ctx, res, crashed>>
    /\ UNCHANGED extra

\* Write, line 54: rb.cond.Broadcast(), after the lock was released.
WriteBroadcast ==
    /\ ~crashed
    /\ wpc = "w_bcast"
    /\ pc' = Broadcast(pc)
    /\ wpc' = "idle"
    /\ UNCHANGED <<buffer, start, end, warg, rstart, ctx, res, crashed, stored, h>>
    /\ UNCHANGED extra

\* Reset, lines 59-60: rb.cond.L.Lock() is RLock on the RWMutex (cond.L is
\* rw.RLocker()), which the single writer always gets at once and which
\* excludes no reader; then rb.start = start.
ResetEnter(k) ==
    /\ ~crashed
    /\ wpc = "idle"
    /\ start' = k
    /\ warg' = k
    /\ wpc' = "r_end"
    /\ stored' = <<>>
    /\ h' = [r \in Readers |-> IF InCall(r) THEN [h[r] EXCEPT !.rs = TRUE] ELSE h[r]]
    /\ UNCHANGED <<buffer, end, pc, rstart, ctx, res, crashed>>

\* A call of Reset by a writer that is free to call it at any moment.
ResetCall(k) ==
    /\ ResetEnter(k)
    /\ UNCHANGED extra

\* Reset, lines 61-62: rb.end = start; rb.cond.L.Unlock().
ResetEnd ==
    /\ ~crashed
    /\ wpc = "r_end"
    /\ end' = warg
    /\ wpc' = "r_bcast"
    /\ h' = [r \in Readers |-> IF InCall(r) THEN [h[r] EXCEPT !.rs = TRUE] ELSE h[r]]
    /\ UNCHANGED <<buffer, start, warg, pc, rstart, ctx, res, crashed, stored>>
    /\ UNCHANGED extra

\* Reset, line 63: rb.cond.Broadcast().
ResetBroadcast ==
    /\ ~crashed
    /\ wpc = "r_bcast"
    /\ pc' = Broadcast(pc)
    /\ wpc' = "idle"
    /\ warg' = 0
    /\ UNCHANGED <<buffer, start, end, rstart, ctx, res, crashed, stored, h>>
    /\ UNCHANGED extra

\* ----------------------------------------------------------------- reader
\* Read's return statements: the values (next, items, err) are set; the
\* deferred rb.cond.L.Unlock() of line 100 is still to run.
Return(r, next, items, err) ==
    /\ pc' = [pc EXCEPT ![r] = "done"]
    /\ res' = [res EXCEPT ![r] = [next |-> next, items |-> items, err |-> err]]
    /\ UNCHANGED crashed

\* A panic in a goroutine that nothing recovers ends the process.
Panic(r) ==
    /\ crashed' = TRUE
    /\ pc' = [pc EXCEPT ![r] = "done"]
    /\ res' = [res EXCEPT ![r] = [next |-> 0, items |-> <<>>, err |-> "panic"]]

FinishReturnsEnd(r, e) ==
    IF ctx[r]
    THEN Return(r, rstart[r], <<>>, "Canceled")
    ELSE Return(r, e, CopyItems(buffer, rstart[r], e), "nil")
\* Read, lines 102-115, with e the offset endOffset returned without error:
\* the context check, make([]*Item, 0, end-start) (which panics on a negative
\* capacity), the copy loop and the return.  Nothing shared but rb.buffer is
\* read here, and the read lock held keeps Write away from it.
Finish(r, e) ==
    IF ctx[r]
    THEN Return(r, rstart[r], <<>>, "Canceled")
    ELSE IF e - rstart[r] < 0
         THEN Panic(r)
         ELSE Return(r, e, CopyItems(buffer, rstart[r], e), "nil")

\* Read, line 99: rb.cond.L.Lock(), an RLock: taken at once unless the writer
\* is inside Lock(), in which case the reader queues behind it.
ReadEnter(r, s) ==
    /\ ~crashed
    /\ pc[r] = "idle"
    /\ rstart' = [rstart EXCEPT ![r] = s]
    /\ IF WriterPending
       THEN /\ pc' = [pc EXCEPT ![r] = "rlock"]
            /\ UNCHANGED h
       ELSE /\ pc' = [pc EXCEPT ![r] = "c1"]
            /\ h' = [h EXCEPT ![r] = AtLock(s, start, end, stored, wpc = "r_end")]
    /\ UNCHANGED <<buffer, start, end, wpc, warg, ctx, res, crashed, stored>>

\* A call of Read by a goroutine that is free to call it at any moment.
ReadCall(r, s) ==
    /\ ReadEnter(r, s)
    /\ UNCHANGED extra

\* endOffset, lines 73-75 and Read, lines 102-104: case start < rb.start.
CheckBefore(r) ==
    /\ ~crashed
    /\ pc[r] = "c1"
    /\ IF IsBefore(rstart[r], start)
       THEN Return(r, rstart[r], <<>>, "ErrBeforeBuffer")
       ELSE /\ pc' = [pc EXCEPT ![r] = "c2"]
            /\ UNCHANGED <<res, crashed>>
    /\ UNCHANGED <<buffer, start, end, wpc, warg, rstart, ctx, stored, h>>
    /\ UNCHANGED extra

\* endOffset, line 77: case start < rb.end.
CheckInside(r) ==
    /\ ~crashed
    /\ pc[r] = "c2"
    /\ pc' = [pc EXCEPT ![r] = IF IsInside(rstart[r], end) THEN "c2ret" ELSE "c3"]
    /\ UNCHANGED <<buffer, start, end, wpc, warg, rstart, ctx, res, crashed, stored, h>>
    /\ UNCHANGED extra

\* endOffset, line 79: return rb.end, nil (a second load of rb.end), and the
\* rest of Read.
ReturnEnd(r) ==
    /\ ~crashed
    /\ pc[r] = "c2ret"
    /\ Finish(r, end)
    /\ UNCHANGED <<buffer, start, end, wpc, warg, rstart, ctx, stored, h>>
    /\ UNCHANGED extra

\* endOffset, line 81: case start == rb.end.
CheckAtEnd(r) ==
    /\ ~crashed
    /\ pc[r] = "c3"
    /\ pc' = [pc EXCEPT ![r] = IF IsAtEnd(rstart[r], end) THEN "enlist" ELSE "c4"]
    /\ UNCHANGED <<buffer, start, end, wpc, warg, rstart, ctx, res, crashed, stored, h>>
    /\ UNCHANGED extra

\* endOffset, line 83, first half of rb.cond.Wait(): the goroutine puts itself
\* on the condition's wait list and releases the read lock.
WaitEnlist(r) ==
    /\ ~crashed
    /\ pc[r] = "enlist"
    /\ pc' = [pc EXCEPT ![r] = "waiting"]
    /\ UNCHANGED <<buffer, start, end, wpc, warg, rstart, ctx, res, crashed, stored, h>>
    /\ UNCHANGED extra

\* endOffset, lines 86-90: case start >= rb.end (a third load), else the
\* default branch panics.
CheckAfter(r) ==
    /\ ~crashed
    /\ pc[r] = "c4"
    /\ IF IsAfter(rstart[r], end)
       THEN Return(r, rstart[r], <<>>, "ErrAfterBuffer")
       ELSE Panic(r)
    /\ UNCHANGED <<buffer, start, end, wpc, warg, rstart, ctx, stored, h>>
    /\ UNCHANGED extra

\* endOffset, line 83, second half of rb.cond.Wait(): once woken, the goroutine
\* takes the read lock again (queueing behind a writer inside Lock()).
WaitRelock(r) ==
    /\ ~crashed
    /\ pc[r] = "woken"
    /\ IF WriterPending
       THEN /\ pc' = [pc EXCEPT ![r] = "relock"]
            /\ UNCHANGED h
       ELSE /\ pc' = [pc EXCEPT ![r] = "wret"]
            /\ h' = [h EXCEPT ![r] = AtWake(h[r], rstart[r], start, end)]
    /\ UNCHANGED <<buffer, start, end, wpc, warg, rstart, ctx, res, crashed, stored>>
    /\ UNCHANGED extra

\* endOffset, line 84: return rb.end, nil, and the rest of Read.
WaitReturnEnd(r) ==
    /\ ~crashed
    /\ pc[r] = "wret"
    /\ Finish(r, end)
    /\ UNCHANGED <<buffer, start, end, wpc, warg, rstart, ctx, stored, h>>
    /\ UNCHANGED extra

\* Read, line 100: the deferred rb.cond.L.Unlock() runs and Read hands its
\* values to the caller; the goroutine may call Read again, with a fresh context.
ReadExit(r) ==
    /\ ~crashed
    /\ pc[r] = "done"
    /\ pc' = [pc EXCEPT ![r] = "idle"]
    /\ rstart' = [rstart EXCEPT ![r] = 0]
    /\ ctx' = [ctx EXCEPT ![r] = FALSE]
    /\ res' = [res EXCEPT ![r] = NoRes]
    /\ h' = [h EXCEPT ![r] = NoHist]
    /\ UNCHANGED <<buffer, start, end, wpc, warg, crashed, stored>>

\* The return of a Read whose caller is free to do anything with the values.
ReadDone(r) ==
    /\ ReadExit(r)
    /\ UNCHANGED extra

\* The context handed to Read is cancelled (by its owner, or by a deadline).
\* Read loads ctx.Err() once, at line 106, so a cancellation at any earlier
\* moment of a call is the same as one while the reader waits or just before
\* endOffset returns.
Cancel(r) ==
    /\ ~crashed
    /\ pc[r] \in {"waiting", "c2ret"}
    /\ ~ctx[r]
    /\ ctx' = [ctx EXCEPT ![r] = TRUE]
    /\ UNCHANGED <<buffer, start, end, wpc, warg, pc, rstart, res, crashed, stored, h>>
    /\ UNCHANGED extra

\* ------------------------------------------------- reader, revised Read
\* The Read of 2020-02-09 (README): the switch of endOffset is inlined, a
\* second switch follows Wait, and the copy loop filters by agent id.  The
\* positions "c1", "c2", "c3", "enlist" .. "wret" are those of the first Read.

\* The events the writer stores for the revised Read (*pb.AgentEvent).
AgentEvents == {1, 2, 3}

\* ev.AgentId: events 1 and 3 belong to one agent, event 2 to another.
AgentIdOf(ev) == (ev % 2) + 1

\* What a caller may pass as agentId: 0, or an agent's id.
AgentIds == {0, 1, 2}

MatchesAll(a, ev) == TRUE
\* Revised Read, line 106: agentId == 0 || rb.buffer[bufOffset].AgentId == agentId
Matches(a, ev) == a = 0 \/ AgentIdOf(ev) = a

\* Revised Read, line 73: rb.cond.L.Lock().
RevReadCall(r, s, a) ==
    /\ ~crashed
    /\ pc[r] = "idle"
    /\ rstart' = [rstart EXCEPT ![r] = s]
    /\ agentId' = [agentId EXCEPT ![r] = a]
    /\ UNCHANGED <<lastId, spc, cur, fed, ops, pings>>
    /\ UNCHANGED consumer
    /\ IF WriterPending
       THEN /\ pc' = [pc EXCEPT ![r] = "rlock"]
            /\ UNCHANGED h
       ELSE /\ pc' = [pc EXCEPT ![r] = "c1"]
            /\ h' = [h EXCEPT ![r] = AtLock(s, start, end, stored, wpc = "r_end")]
    /\ UNCHANGED <<buffer, start, end, wpc, warg, ctx, res, crashed, stored>>

\* Revised Read, lines 77-79: case start < rb.start: return rb.start, nil, err.
RevCheckBefore(r) ==
    /\ ~crashed
    /\ pc[r] = "c1"
    /\ IF IsBefore(rstart[r], start)
       THEN Return(r, start, <<>>, "ErrBeforeBuffer")
       ELSE /\ pc' = [pc EXCEPT ![r] = "c2"]
            /\ UNCHANGED <<res, crashed>>
    /\ UNCHANGED <<buffer, start, end, wpc, warg, rstart, ctx, stored, h, extra>>

\* Revised Read, line 80: case start < rb.end: on to the copy loop.
RevCheckInside(r) ==
    /\ ~crashed
    /\ pc[r] = "c2"
    /\ pc' = [pc EXCEPT ![r] = IF IsInside(rstart[r], end) THEN "mk" ELSE "c3"]
    /\ UNCHANGED <<buffer, start, end, wpc, warg, rstart, ctx, res, crashed, stored, h, extra>>

\* Revised Read, line 82: case start >= rb.end (another load of rb.end); the
\* switch has no default, so no case taken falls through to the copy loop.
RevCheckAfter(r) ==
    /\ ~crashed
    /\ pc[r] = "c3"
    /\ pc' = [pc EXCEPT ![r] = IF IsAfter(rstart[r], end) THEN "enlist" ELSE "mk"]
    /\ UNCHANGED <<buffer, start, end, wpc, warg, rstart, ctx, res, crashed, stored, h, extra>>

\* Revised Read, lines 85-88: after Wait, if ctx.Err() != nil return start, nil, ctx.Err().
RevWakeCtx(r) ==
    /\ ~crashed
    /\ pc[r] = "wret"
    /\ IF ctx[r]
       THEN Return(r, rstart[r], <<>>, "Canceled")
       ELSE /\ pc' = [pc EXCEPT ![r] = "p1"]
            /\ UNCHANGED <<res, crashed>>
    /\ UNCHANGED <<buffer, start, end, wpc, warg, rstart, ctx, stored, h, extra>>

\* Revised Read, lines 90-92: after Wait, case start < rb.start.
RevPostBefore(r) ==
    /\ ~crashed
    /\ pc[r] = "p1"
    /\ IF rstart[r] < start
       THEN Return(r, start, <<>>, "ErrBeforeBuffer")
       ELSE /\ pc' = [pc EXCEPT ![r] = "p2"]
            /\ UNCHANGED <<res, crashed>>
    /\ UNCHANGED <<buffer, start, end, wpc, warg, rstart, ctx, stored, h, extra>>

\* Revised Read, line 93: after Wait, case start < rb.end.
RevPostInside(r) ==
    /\ ~crashed
    /\ pc[r] = "p2"
    /\ pc' = [pc EXCEPT ![r] = IF rstart[r] < end THEN "mk" ELSE "p3"]
    /\ UNCHANGED <<buffer, start, end, wpc, warg, rstart, ctx, res, crashed, stored, h, extra>>

\* Revised Read, lines 95-96: after Wait, case start == rb.end: return start, nil, nil.
RevPostAtEnd(r) ==
    /\ ~crashed
    /\ pc[r] = "p3"
    /\ IF rstart[r] = end
       THEN Return(r, rstart[r], <<>>, "nil")
       ELSE /\ pc' = [pc EXCEPT ![r] = "p4"]
            /\ UNCHANGED <<res, crashed>>
    /\ UNCHANGED <<buffer, start, end, wpc, warg, rstart, ctx, stored, h, extra>>

\* Revised Read, lines 97-98: after Wait, case start > rb.end: return start,
\* nil, ErrAfterBuffer; no case taken falls through to the copy loop.
RevPostAfter(r) ==
    /\ ~crashed
    /\ pc[r] = "p4"
    /\ IF rstart[r] > end
       THEN Return(r, rstart[r], <<>>, "ErrAfterBuffer")
       ELSE /\ pc' = [pc EXCEPT ![r] = "mk"]
            /\ UNCHANGED <<res, crashed>>
    /\ UNCHANGED <<buffer, start, end, wpc, warg, rstart, ctx, stored, h, extra>>

\* Revised Read, line 103: items := make(..., 0, rb.end-start), which panics
\* on a negative capacity.  From here res holds the locals of the loop:
\* next is the variable start, items the slice.
RevMake(r) ==
    /\ ~crashed
    /\ pc[r] = "mk"
    /\ IF end - rstart[r] < 0
       THEN Panic(r)
       ELSE /\ pc' = [pc EXCEPT ![r] = "loop"]
            /\ res' = [res EXCEPT ![r] = [next |-> rstart[r], items |-> <<>>, err |-> "none"]]
            /\ UNCHANGED crashed
    /\ UNCHANGED <<buffer, start, end, wpc, warg, rstart, ctx, stored, h, extra>>

\* Revised Read, lines 104-110: one test of start < rb.end, and either one
\* pass through the loop body (a nil slot panics when its AgentId is read) or
\* return start, items, nil.
RevLoop(r) ==
    /\ ~crashed
    /\ pc[r] = "loop"
    /\ LET s == res[r].next
           ev == buffer[BufOffset(s)]
       IN IF s < end
          THEN IF agentId[r] # 0 /\ ev = Nil
               THEN Panic(r)
               ELSE /\ res' = [res EXCEPT ![r].next = s + 1,
                                          ![r].items = IF Matches(agentId[r], ev)
                                                       THEN Append(@, ev) ELSE @]
                    /\ UNCHANGED <<pc, crashed>>
          ELSE Return(r, s, res[r].items, "nil")
    /\ UNCHANGED <<buffer, start, end, wpc, warg, rstart, ctx, stored, h, extra>>

\* Revised Read, line 74: the deferred rb.cond.L.Unlock().
RevReadDone(r) ==
    /\ ~crashed
    /\ pc[r] = "done"
    /\ pc' = [pc EXCEPT ![r] = "idle"]
    /\ rstart' = [rstart EXCEPT ![r] = 0]
    /\ ctx' = [ctx EXCEPT ![r] = FALSE]
    /\ res' = [res EXCEPT ![r] = NoRes]
    /\ h' = [h EXCEPT ![r] = NoHist]
    /\ agentId' = [agentId EXCEPT ![r] = 0]
    /\ UNCHANGED <<lastId, spc, cur, fed, ops, pings>>
    /\ UNCHANGED consumer
    /\ UNCHANGED <<buffer, start, end, wpc, warg, crashed, stored>>

\* ----------------------------------------------------- sequencer (WriteItems)
\* Most deliveries of waitItem (items and timeouts) a run of the model sees.
MaxFeed == 5
\* Largest id of a notification.
MaxId == 5
\* Most timeouts of waitItem a run of the model counts.
MaxPings == 1

Ids == 0..MaxId

\* waitItem: &ringbuffer.Item{i}, a non-nil pointer to an item of id i.
ItemOf(i) == i + 1

\* item.Id
IdOf(item) == item - 1

IsNextIdAlways(id, last) == TRUE
IsNextIdNever(id, last) == FALSE
\* WriteItems, line 96: case item.Id == lastId+1
IsNextId(id, last) == id = last + 1

\* WriteItems, lines 88-105: waitItem delivers an item; for the id after
\* lastId the sequencer calls rb.Write(item), for any other it calls
\* rb.Reset(item.Id) first.
SeqItem(i) ==
    /\ spc = "wait"
    /\ Len(fed) < MaxFeed
    /\ fed' = Append(fed, i)
    /\ cur' = i
    /\ IF IsNextId(i, lastId)
       THEN /\ WriteEnter(ItemOf(i))
            /\ spc' = "writing"
            /\ ops' = Append(ops, <<"Write", i>>)
       ELSE /\ ResetEnter(i)
            /\ spc' = "resetting"
            /\ ops' = Append(ops, <<"Reset", i>>)
    /\ UNCHANGED <<agentId, lastId, pings>>
    /\ UNCHANGED consumer

\* waitItem, lines 79-81, and WriteItems, lines 93-94: a timeout delivers
\* nil, nil and the loop continues.
SeqTimeout ==
    /\ ~crashed
    /\ spc = "wait"
    /\ pings < MaxPings
    /\ pings' = pings + 1
    /\ UNCHANGED <<buffer, start, end, wpc, warg, pc, rstart, ctx, res, crashed, stored, h>>
    /\ UNCHANGED <<agentId, lastId, spc, cur, fed, ops>>
    /\ UNCHANGED consumer

\* waitItem, lines 73-76, and WriteItems, lines 90-91: a notification that
\* does not parse ends the process (log.Fatalf).
SeqFatal ==
    /\ ~crashed
    /\ spc = "wait"
    /\ crashed' = TRUE
    /\ UNCHANGED <<buffer, start, end, wpc, warg, pc, rstart, ctx, res, stored, h>>
    /\ UNCHANGED extra

\* WriteItems, line 105: rb.Reset has returned; rb.Write(item).
SeqWriteAfterReset ==
    /\ spc = "resetting"
    /\ WriteEnter(ItemOf(cur))
    /\ spc' = "writing"
    /\ ops' = Append(ops, <<"Write", cur>>)
    /\ UNCHANGED <<agentId, lastId, cur, fed, pings>>
    /\ UNCHANGED consumer

SeqKeepLastId ==
    /\ ~crashed
    /\ spc = "writing"
    /\ wpc = "idle"
    /\ spc' = "wait"
    /\ ops' = Append(ops, <<"lastId", cur>>)
    /\ UNCHANGED <<buffer, start, end, wpc, warg, pc, rstart, ctx, res, crashed, stored, h>>
    /\ UNCHANGED <<agentId, lastId, cur, fed, pings>>
    /\ UNCHANGED consumer
\* WriteItems, line 107: rb.Write has returned; lastId = item.Id.
SeqSetLastId ==
    /\ ~crashed
    /\ spc = "writing"
    /\ wpc = "idle"
    /\ lastId' = cur
    /\ spc' = "wait"
    /\ ops' = Append(ops, <<"lastId", cur>>)
    /\ UNCHANGED <<buffer, start, end, wpc, warg, pc, rstart, ctx, res, crashed, stored, h>>
    /\ UNCHANGED <<agentId, cur, fed, pings>>
    /\ UNCHANGED consumer

\* ------------------------------------------------------------- GetUpdates
\* The consumer loop of pgnotifier.go, run by the reader goroutine "r1".

\* The highest end offset the writer of the consumer's buffer reaches.
MaxEnd == 4

\* GetUpdates, line 115: called with a bookmark; the loop has not started.
GetUpdates(b) ==
    /\ ~crashed
    /\ gpc = "off"
    /\ gpc' = "loop"
    /\ gstart' = b
    /\ gfirst' = b
    /\ gin' = (~IsBefore(b, start) /\ IsInside(b, end))
    /\ got' = <<>>
    /\ UNCHANGED <<buffer, start, end, wpc, warg, pc, rstart, ctx, res, crashed, stored, h>>
    /\ UNCHANGED <<agentId, lastId, spc, cur, fed, ops, pings>>

\* GetUpdates, line 122: rb.Read(ctx, start) is called with the bookmark.
GetRead ==
    /\ gpc = "loop"
    /\ ReadEnter("r1", gstart)
    /\ gpc' = "reading"
    /\ UNCHANGED <<gstart, gfirst, gin, got>>
    /\ UNCHANGED <<agentId, lastId, spc, cur, fed, ops, pings>>

\* GetUpdates, lines 122-133: start, items, err = rb.Read(ctx, start); an error
\* ends the loop (Read hands back the bookmark it was given and no items);
\* otherwise the items are acted on and the loop goes to its select.
GetResult ==
    /\ gpc = "reading"
    /\ ReadExit("r1")
    /\ gstart' = res["r1"].next
    /\ got' = got \o res["r1"].items
    /\ gpc' = IF res["r1"].err # "nil" THEN "returned" ELSE "tick"
    /\ UNCHANGED <<gfirst, gin>>
    /\ UNCHANGED <<agentId, lastId, spc, cur, fed, ops, pings>>

\* GetUpdates, lines 136-137: case <-tick, and the loop reads again.
GetTick ==
    /\ ~crashed
    /\ gpc = "tick"
    /\ gpc' = "loop"
    /\ UNCHANGED <<gstart, gfirst, gin, got>>
    /\ UNCHANGED <<buffer, start, end, wpc, warg, pc, rstart, ctx, res, crashed, stored, h>>
    /\ UNCHANGED <<agentId, lastId, spc, cur, fed, ops, pings>>

\* GetUpdates, lines 138-139: case <-ctx.Done(): return ctx.Err().
GetCtxDone ==
    /\ ~crashed
    /\ gpc = "tick"
    /\ gpc' = "returned"
    /\ UNCHANGED <<gstart, gfirst, gin, got>>
    /\ UNCHANGED <<buffer, start, end, wpc, warg, pc, rstart, ctx, res, crashed, stored, h>>
    /\ UNCHANGED <<agentId, lastId, spc, cur, fed, ops, pings>>

\* WriteItems, lines 96-97, for a notification stream without gaps or
\* restarts: the item of id n is written at offset n of a buffer created at
\* offset 0.
WriteNext ==
    /\ end < MaxEnd
    /\ WriteEnter(ItemOf(end))
    /\ UNCHANGED extra

\* ------------------------------------------------------------------- Next
WriteStep ==
    \/ \E item \in Items : WriteCall(item)
    \/ WriteMutate
    \/ WriteBroadcast

ResetStep ==
    \/ \E k \in Offsets : ResetCall(k)
    \/ ResetEnd
    \/ ResetBroadcast

\* The steps of a Read in progress.
ReaderRun(r) ==
    \/ CheckBefore(r)
    \/ CheckInside(r)
    \/ ReturnEnd(r)
    \/ CheckAtEnd(r)
    \/ WaitEnlist(r)
    \/ CheckAfter(r)
    \/ WaitRelock(r)
    \/ WaitReturnEnd(r)
    \/ ReadDone(r)

ReaderStep(r) ==
    \/ \E s \in Offsets : ReadCall(r, s)
    \/ ReaderRun(r)

\* The steps of a Write or Reset in progress.
WriterRun ==
    \/ WriteMutate
    \/ WriteBroadcast
    \/ ResetEnd
    \/ ResetBroadcast

\* One writer and one reader, with everything either can do.
Next ==
    \/ WriteStep
    \/ ResetStep
    \/ ReaderStep("r1")
    \/ Cancel("r1")

Spec == Init /\ [][Next]_vars

\* The Go scheduler runs every runnable goroutine: a call in progress takes
\* its next step unless it is blocked.  Nothing obliges a goroutine to start
\* a call, or a context's owner to cancel it.
FairSpec == Spec /\ WF_vars(ReaderRun("r1")) /\ WF_vars(WriterRun)

\* One writer that only calls Write, and two readers.
NextReaders ==
    \/ WriteStep
    \/ \E r \in Readers : ReaderStep(r)

FairReaders ==
    /\ Init /\ [][NextReaders]_vars
    /\ WF_vars(WriterRun)
    /\ \A r \in Readers : WF_vars(ReaderRun(r))

\* One writer calling Write and Reset (the values written and the offsets reset
\* to play no part in who holds which lock: one item, and a restart at offset
\* 0), and two readers that ask for the end of the window, the offset at which
\* Read blocks for new data.
NextBlocked ==
    \/ WriteCall(1)
    \/ ResetCall(0)
    \/ WriterRun
    \/ \E r \in Readers : (ReadCall(r, end) \/ ReaderRun(r))

FairBlocked ==
    /\ Init /\ [][NextBlocked]_vars
    /\ WF_vars(WriterRun)
    /\ \A r \in Readers : WF_vars(ReaderRun(r))

\* The steps of a revised Read in progress.
RevReaderRun(r) ==
    \/ RevCheckBefore(r)
    \/ RevCheckInside(r)
    \/ RevCheckAfter(r)
    \/ WaitEnlist(r)
    \/ WaitRelock(r)
    \/ RevWakeCtx(r)
    \/ RevPostBefore(r)
    \/ RevPostInside(r)
    \/ RevPostAtEnd(r)
    \/ RevPostAfter(r)
    \/ RevMake(r)
    \/ RevLoop(r)
    \/ RevReadDone(r)

\* A writer that only calls Write, as in the first ring buffer, storing agent
\* events, and one reader calling the revised Read.
NextRevised ==
    \/ \E ev \in AgentEvents : WriteCall(ev)
    \/ WriteMutate
    \/ WriteBroadcast
    \/ \E s \in Offsets, a \in AgentIds : RevReadCall("r1", s, a)
    \/ RevReaderRun("r1")
    \/ Cancel("r1")

SpecRevised == Init /\ [][NextRevised]_vars

\* main, lines 154-155: a buffer created at offset 0, written by WriteItems
\* alone.
InitSeq == Init /\ start = 0

NextSeq ==
    \/ \E i \in Ids : SeqItem(i)
    \/ SeqTimeout
    \/ SeqFatal
    \/ SeqWriteAfterReset
    \/ SeqSetLastId
    \/ WriterRun

SpecSeq == InitSeq /\ [][NextSeq]_vars

\* The steps of a Read that GetUpdates called.
ConsumerRun ==
    \/ CheckBefore("r1")
    \/ CheckInside("r1")
    \/ ReturnEnd("r1")
    \/ CheckAtEnd("r1")
    \/ WaitEnlist("r1")
    \/ CheckAfter("r1")
    \/ WaitRelock("r1")
    \/ WaitReturnEnd("r1")

\* main, lines 154-180: the buffer created at offset 0, a writer that only
\* calls Write, and one GetUpdates loop.
NextConsumer ==
    \/ WriteNext
    \/ WriteMutate
    \/ WriteBroadcast
    \/ \E b \in 0..MaxEnd : GetUpdates(b)
    \/ GetRead
    \/ ConsumerRun
    \/ Cancel("r1")
    \/ GetResult
    \/ GetTick
    \/ GetCtxDone

SpecConsumer == InitSeq /\ [][NextConsumer]_vars

\* ----------------------------------------------------------------- claims
\* The history agrees with the offsets whenever no Reset is half done.
HistoryInv == wpc # "r_end" => Len(stored) = end - start

\* C1: between calls of Write and Reset, and at every step of a Write,
\* start <= end and end - start <= Size (the only states left out are those
\* inside Reset, between its two assignments).
C1_WindowBounded == wpc # "r_end" => (start <= end /\ end - start <= Size)

\* A full window that has already evicted an item.
C1_Witness == wpc = "idle" /\ end - start = Size /\ start >= 1

\* C2: a Write stores its item in slot end mod Size and in no other slot,
\* advances end by one, advances start by one exactly when the window held
\* Size items and leaves it alone otherwise; afterwards every offset of the
\* window [start, end) reads, through its slot, the item written at that
\* offset, so a Write on a full window drops exactly the oldest item.
C2_WriteStep ==
    [][(wpc = "w_wait" /\ wpc' = "w_bcast") =>
        /\ buffer' = [i \in 0..(Size - 1) |-> IF i = end % Size THEN warg ELSE buffer[i]]
        /\ end' = end + 1
        /\ (end - start = Size) => start' = start + 1
        /\ (end - start # Size) => start' = start
        /\ \A o \in start'..(end' - 1) : buffer'[o % Size] = stored'[o - start' + 1]
        /\ stored'[Len(stored')] = warg
        /\ \A o \in start'..(end - 1) : stored'[o - start' + 1] = stored[o - start + 1]]_vars

\* A Write on a full window has just moved both offsets.
C2_Witness == wpc = "w_bcast" /\ end - start = Size /\ start >= 1

\* C3: a Read that takes the lock on a complete window [A, B) with
\* A <= start < B, its context not cancelled, returns without waiting,
\* with no error, next offset B and the items stored at start .. B-1.
C3_ReadInside ==
    \A r \in Readers :
        (pc[r] = "done" /\ h[r].kind = "inside" /\ h[r].B > 0 /\ ~ctx[r]) =>
            /\ h[r].wk = "none"
            /\ res[r] = [next |-> h[r].B, items |-> h[r].exp, err |-> "nil"]

\* The same, for a Read that no Reset overlaps.
ReadInsideNoReset ==
    \A r \in Readers :
        (pc[r] = "done" /\ h[r].kind = "inside" /\ ~h[r].rs /\ ~ctx[r]) =>
            /\ h[r].wk = "none"
            /\ res[r] = [next |-> h[r].B, items |-> h[r].exp, err |-> "nil"]

\* C4: a Read whose start is below the window start A returns at once the
\* fell-behind error, no items and A as the offset.
C4_FellBehind ==
    \A r \in Readers :
        (pc[r] = "done" /\ h[r].kind = "before" /\ ~h[r].rs) =>
            res[r] = [next |-> start, items |-> <<>>, err |-> "ErrBeforeBuffer"]

\* What the code returns there: the requested start.
FellBehindReturnsStart ==
    \A r \in Readers :
        (pc[r] = "done" /\ h[r].kind = "before" /\ ~h[r].rs) =>
            res[r] = [next |-> rstart[r], items |-> <<>>, err |-> "ErrBeforeBuffer"]

\* C5: a Read whose start is the window end B when it takes the lock, and
\* that no Reset overlaps, returns only after it went through Wait and a
\* Broadcast of Write or Reset woke it; if exactly one Write(item) happened
\* since it took the lock and its context is not cancelled, it returns
\* (B+1, [item]) with no error.
C5_BlocksUntilWrite ==
    \A r \in Readers :
        (pc[r] = "done" /\ h[r].kind = "atend" /\ ~h[r].rs) =>
            /\ h[r].wk # "none"
            /\ (h[r].nw = 1 /\ ~ctx[r]) =>
                  /\ stored # <<>>
                  /\ res[r] = [next |-> rstart[r] + 1,
                               items |-> <<stored[Len(stored)]>>, err |-> "nil"]

\* Read(0) on a buffer created at offset 0 waited, one Write happened, and
\* Read came back with (1, [item]).
C5_Witness ==
    /\ pc["r1"] = "done" /\ rstart["r1"] = 0 /\ h["r1"].kind = "atend"
    /\ h["r1"].empty /\ ~h["r1"].rs /\ h["r1"].nw = 1
    /\ res["r1"].next = 1 /\ Len(res["r1"].items) = 1 /\ res["r1"].err = "nil"

\* C6: with only Writes going on, a reader on the condition's wait list when
\* a Write has changed the window comes back (the Write's Broadcast wakes all
\* of them); and a Read that waited at the window end returns, with no
\* error, the window end it found under the lock and the items written at
\* the offsets from its start up to it: after exactly one Write, that one
\* item and the offset after it.
C6_Consistent ==
    \A r \in Readers :
        (pc[r] = "done" /\ h[r].kind = "atend" /\ h[r].wk \in {"inside", "atend"}) =>
            /\ res[r] = [next |-> end,
                         items |-> SubSeq(stored, rstart[r] - start + 1, end - start),
                         err |-> "nil"]
            /\ h[r].nw = 1 =>
                  (res[r].next = rstart[r] + 1 /\ res[r].items = <<stored[Len(stored)]>>)

C6_AllUnblock ==
    /\ []C6_Consistent
    /\ \A r \in Readers : (pc[r] = "waiting" /\ wpc = "w_bcast") ~> (pc[r] = "done")

\* Two readers waited at the same offset, one Write happened, and both came
\* back with it.
C6_Witness ==
    /\ \A r \in Readers :
          /\ pc[r] = "done" /\ h[r].kind = "atend" /\ h[r].nw = 1
          /\ res[r].next = rstart[r] + 1 /\ Len(res[r].items) = 1
    /\ rstart["r1"] = rstart["r2"]

\* C7: Reset(k) leaves start = end = k; a Read that takes the lock on the
\* window Reset left (empty, no Write since) and that no later Reset overlaps
\* returns the fell-behind error for a start below k, and for start = k
\* returns no items and no error as long as no Write has happened (it comes
\* back from Wait on the Reset's broadcast), its context not cancelled.
C7_ReadsAfterReset ==
    \A r \in Readers :
        (pc[r] = "done" /\ h[r].empty /\ ~h[r].rs) =>
            /\ h[r].kind = "before" =>
                  (res[r].err = "ErrBeforeBuffer" /\ res[r].items = <<>>)
            /\ (h[r].kind = "atend" /\ h[r].nw = 0 /\ ~ctx[r]) =>
                  (res[r].err = "nil" /\ res[r].items = <<>>)

C7_AfterReset ==
    /\ [][(wpc = "r_end" /\ wpc' = "r_bcast") => (start' = warg /\ end' = warg)]_vars
    /\ [](wpc = "r_bcast" => (start = warg /\ end = warg))
    /\ []C7_ReadsAfterReset

\* After a Write and a Reset(k), k >= 1, a Read below k got the error.
C7_Witness ==
    /\ pc["r1"] = "done" /\ h["r1"].empty /\ ~h["r1"].rs /\ h["r1"].kind = "before"
    /\ \E i \in 0..(Size - 1) : buffer[i] # Nil
    /\ res["r1"].err = "ErrBeforeBuffer"

\* After a Write and a Reset(k), Read(k) came back with nothing.
C7_WitnessAtK ==
    /\ pc["r1"] = "done" /\ h["r1"].empty /\ ~h["r1"].rs /\ h["r1"].kind = "atend"
    /\ h["r1"].nw = 0 /\ ~ctx["r1"]
    /\ \E i \in 0..(Size - 1) : buffer[i] # Nil

\* C8: a Read that waited and, when Wait retakes the lock, finds its start
\* below the window start C returns C with the fell-behind error and no items.
C8_WokenBehind ==
    \A r \in Readers :
        (pc[r] = "done" /\ h[r].wk = "before" /\ ~ctx[r]) =>
            res[r] = [next |-> h[r].C, items |-> <<>>, err |-> "ErrBeforeBuffer"]

\* C9: a Read that waited and, when Wait retakes the lock, finds its start
\* above the window end D returns its start unchanged with the
\* too-far-ahead error and no items, and does not crash.
C9_WokenAhead ==
    \A r \in Readers :
        (pc[r] = "done" /\ h[r].wk = "after" /\ ~ctx[r]) =>
            res[r] = [next |-> rstart[r], items |-> <<>>, err |-> "ErrAfterBuffer"]

\* C10: a Read that waits and whose context is cancelled returns its start
\* with the cancelled error and no items, whether or not a Write or Reset
\* follows.
C10_CancelReturns ==
    (pc["r1"] = "waiting" /\ ctx["r1"]) ~>
        (pc["r1"] = "done" /\
         res["r1"] = [next |-> rstart["r1"], items |-> <<>>, err |-> "Canceled"])

\* C11: a Read that returns with no error returns an offset that is not below
\* the start it was called with, whatever Writes and Resets ran during the
\* call, it waiting or not.
C11_NextNotBelow ==
    \A r \in Readers :
        (pc[r] = "done" /\ res[r].err = "nil") => res[r].next >= rstart[r]

\* A Read that waited, overlapped a Reset, and came back with items and no
\* error.
C11_Witness ==
    /\ pc["r1"] = "done" /\ res["r1"].err = "nil"
    /\ h["r1"].wk # "none" /\ h["r1"].rs
    /\ res["r1"].next > rstart["r1"]

C12_WitnessSome ==
    /\ pc["r1"] = "done" /\ res["r1"].err = "nil" /\ agentId["r1"] # 0
    /\ res["r1"].next = rstart["r1"] + 2 /\ Len(res["r1"].items) = 1

\* The arguments of the Resets the sequencer has called, in order.
ResetArgs ==
    LET rs == SelectSeq(ops, LAMBDA o : o[1] = "Reset")
    IN [n \in 1..Len(rs) |-> rs[n][2]]

RECURSIVE Gaps(_, _)
\* The ids of seq that do not follow their predecessor (last, for the first).
Gaps(seq, last) ==
    IF seq = <<>> THEN <<>>
    ELSE (IF Head(seq) = last + 1 THEN <<>> ELSE <<Head(seq)>>) \o Gaps(Tail(seq), Head(seq))

\* C13: the sequencer calls Reset exactly for the delivered items whose id is
\* not lastId + 1, with that id as argument (so the Resets called are, in
\* order, the ids delivered out of sequence); a delivery starts a Reset if
\* the id is out of sequence and a Write if it is not; a timeout of waitItem
\* changes neither the buffer nor lastId and starts no call.
C13_ResetOnGapOnly ==
    /\ [](ResetArgs = Gaps(fed, -1))
    /\ [][Len(fed') > Len(fed) =>
             /\ (wpc' = "r_end") <=> (fed'[Len(fed')] # lastId + 1)
             /\ (wpc' = "w_wait") <=> (fed'[Len(fed')] = lastId + 1)
             /\ wpc' = "r_end" => (start' = fed'[Len(fed')] /\ warg' = fed'[Len(fed')])]_vars
    /\ [][pings' # pings =>
             UNCHANGED <<buffer, start, end, wpc, warg, lastId, spc, ops, fed>>]_vars

\* Ids 0, 1, 2, 4, 5 were delivered and processed: one Reset, of argument 4.
C13_Witness ==
    /\ fed = <<0, 1, 2, 4, 5>> /\ spc = "wait" /\ lastId = 5
    /\ ResetArgs = <<4>> /\ pings = 1

\* Ids 0, 1, 2, 3 were delivered and processed: no Reset.
C13_WitnessInOrder ==
    /\ fed = <<0, 1, 2, 3>> /\ spc = "wait" /\ lastId = 3 /\ ResetArgs = <<>>

\* C14, as the source has it: the sequencer starts with lastId = -1, and the
\* first item it accepts, if its id is not 0, makes it call Reset with that id
\* and then Write; a first item of id 0 is taken for the one after lastId and
\* is written with no Reset.
C14_FirstItem ==
    /\ fed = <<>> => (lastId = -1 /\ ops = <<>>)
    /\ (fed # <<>> /\ fed[1] # 0) =>
          /\ ops[1] = <<"Reset", fed[1]>>
          /\ Len(ops) >= 2 => ops[2] = <<"Write", fed[1]>>
    /\ (fed # <<>> /\ fed[1] = 0) => ops[1] = <<"Write", 0>>

\* The first item, of id 3, made the sequencer reset the buffer to 3 and
\* write it there.
C14_Witness ==
    /\ fed = <<3>> /\ spc = "wait" /\ lastId = 3
    /\ ops = <<<<"Reset", 3>>, <<"Write", 3>>, <<"lastId", 3>>>>
    /\ start = 3 /\ end = 4

\* C14, as stated: whatever the id of the first item accepted, the sequencer
\* calls Reset with it before writing the item.
C14_FirstItemResets == fed # <<>> => ops[1] = <<"Reset", fed[1]>>

RECURSIVE ExpectedOps(_, _)
\* What the sequencer is to do for the ids seq, lastId being last: for an id
\* in sequence Write and the assignment of lastId, for any other Reset first.
ExpectedOps(seq, last) ==
    IF seq = <<>> THEN <<>>
    ELSE LET i == Head(seq)
         IN (IF i = last + 1 THEN <<>> ELSE <<<<"Reset", i>>>>)
            \o <<<<"Write", i>>, <<"lastId", i>>>> \o ExpectedOps(Tail(seq), i)

\* Between items: the window ends right after lastId, every offset of the
\* window holds the item whose id is the offset, and what the sequencer did
\* is, item by item, [Reset,] Write, lastId.
C20_BetweenItems ==
    spc = "wait" =>
        /\ end = lastId + 1
        /\ start <= end /\ end - start <= Size
        /\ \A i \in start..(end - 1) : buffer[i % Size] # Nil /\ buffer[i % Size] - 1 = i
        /\ ops = ExpectedOps(fed, -1)

\* C20: with the buffer created at offset 0 and written by the sequencer
\* alone, whenever the sequencer has finished with an item, end = lastId + 1
\* and every offset of the window holds the item of that id; on a gap it
\* does Reset(id), Write(item), lastId = id in that order; and the buffer
\* changes only in the steps of the Reset or the Write the sequencer has
\* called last for the item in hand.
C20_SequencerKeepsIds ==
    /\ []C20_BetweenItems
    /\ [][<<buffer, start, end>>' # <<buffer, start, end>> =>
             \/ /\ spc' = "resetting" /\ ops'[Len(ops')] = <<"Reset", cur'>>
                /\ buffer' = buffer
                /\ <<start', end'>> \in {<<cur', end>>, <<start, cur'>>}
             \/ /\ spc = "writing" /\ ops[Len(ops)] = <<"Write", cur>>
                /\ buffer' = [buffer EXCEPT ![end % Size] = cur + 1]
                /\ end' = end + 1]_vars

\* Ids 2, 3, 4 were delivered and processed: one Reset to 2, and the window
\* ends at 5.
C20_Witness ==
    /\ fed = <<2, 3, 4>> /\ spc = "wait" /\ lastId = 4
    /\ end = 5 /\ start >= 2
    /\ ops[1] = <<"Reset", 2>> /\ Len(ops) = 7

\* C15: no reader holds the lock while a Reset is between its assignment of
\* start and its assignment of end, and start and end change only in steps
\* taken while no reader holds the lock.
C15_Exclusive ==
    /\ [](\A r \in Readers : HoldsRLock(r) => wpc # "r_end")
    /\ [][(start' # start \/ end' # end) => \A r \in Readers : ~HoldsRLock(r)]_vars

\* The part of C15 that is about Write alone.
WriteExclusive ==
    [][(wpc = "w_wait" /\ wpc' = "w_bcast") => \A r \in Readers : ~HoldsRLock(r)]_vars

\* C16: a reader that has found its start equal to rb.end and is about to
\* wait, or is waiting, while a Reset is under way comes back from Read.
C16_ResetWakes ==
    ((pc["r1"] \in {"enlist", "waiting"}) /\ wpc = "r_end") ~> (pc["r1"] = "done")

\* The part of C16 about a reader already on the wait list when the Reset
\* starts to broadcast.
ResetWakesWaiting ==
    (pc["r1"] = "waiting" /\ wpc = "r_bcast") ~> (pc["r1"] = "done")

\* C17: a Read that takes the lock with its start above the window end does
\* not wait, and returns its start, no items and the too-far-ahead error.
C17_ReadAhead ==
    \A r \in Readers :
        h[r].kind = "after" =>
            /\ pc[r] \in {"c1", "c2", "c3", "c4", "done"}
            /\ pc[r] = "done" =>
                  res[r] = [next |-> rstart[r], items |-> <<>>, err |-> "ErrAfterBuffer"]

\* The same, for a Read that no Reset overlaps.
ReadAheadNoReset ==
    \A r \in Readers :
        (h[r].kind = "after" /\ ~h[r].rs) =>
            /\ pc[r] \in {"c1", "c2", "c3", "c4", "done"}
            /\ pc[r] = "done" =>
                  res[r] = [next |-> rstart[r], items |-> <<>>, err |-> "ErrAfterBuffer"]

\* C19, for the Reads that no Reset overlaps: a Read that returns with no
\* error returns at most Size items, its start is inside the window, and the
\* items are those written at the offsets from its start up to the offset
\* it returns.
C19_ItemsValid ==
    \A r \in Readers :
        (pc[r] = "done" /\ res[r].err = "nil" /\ ~h[r].rs) =>
            /\ Len(res[r].items) <= Size
            /\ start <= rstart[r] /\ res[r].next <= end
            /\ res[r].items = SubSeq(stored, rstart[r] - start + 1, res[r].next - start)

\* C18: a Write or Reset call in progress always completes, however many
\* readers are blocked in Read waiting for new data: a reader inside
\* cond.Wait() holds no lock, so whenever a call of the writer is in progress
\* either the writer can take its next step or a reader that holds the read
\* lock can (no deadlock), and the call reaches its end unless a panic has
\* ended the process.
C18_WriterCompletes ==
    /\ []((wpc # "idle" /\ ~crashed) =>
             \/ ENABLED WriterRun
             \/ \E r \in Readers : HoldsRLock(r) /\ ENABLED ReaderRun(r))
    /\ (wpc # "idle") ~> (wpc = "idle" \/ crashed)

\* Both readers are asleep in cond.Wait() while a Write has taken the exclusive
\* lock and changed the buffer.
C18_Witness ==
    /\ \A r \in Readers : pc[r] = "waiting"
    /\ wpc = "w_bcast"

\* Both readers are asleep in cond.Wait() while a Reset is at its end.
C18_WitnessReset ==
    /\ \A r \in Readers : pc[r] = "waiting"
    /\ wpc = "r_bcast"

\* C21: a GetUpdates loop called with a bookmark inside the window has
\* received, from its Reads that returned no error, the items of the offsets
\* from that bookmark up to its current bookmark, each exactly once and in
\* ascending order, whatever the writer's Writes do meanwhile.
C21_ConsumerInOrder ==
    (gpc # "off" /\ gin) =>
        /\ Len(got) = gstart - gfirst
        /\ \A i \in 1..Len(got) : got[i] = ItemOf(gfirst + i - 1)

\* The loop's bookkeeping of offsets never skips: it has received as many
\* items as its bookmark has advanced.
ConsumerCountsOffsets == Len(got) = gstart - gfirst

\* As long as every Read of the loop found its bookmark inside the window
\* without waiting, or was woken with the bookmark still in the window, the
\* items received are those of the offsets asked for.
ConsumerInOrderInWindow ==
    [][(gpc = "reading" /\ gpc' = "tick" /\ gstart >= start) =>
          got' = got \o [i \in 1..(gstart' - gstart) |-> ItemOf(gstart + i - 1)]]_vars

====
